---------------------------- MODULE Spec2Model ----------------------------
(***************************************************************************)
(* Model of src/agent.py (class MistralAgent): the message router `run`,   *)
(* the per-user conversation memory, the name-based event resolution and   *)
(* the calendar mutations.                                                 *)
(*                                                                         *)
(* Text is modelled as a sequence of one-character strings so that         *)
(* lower(), split(), strip(), `in` and == act on it as they do in Python.  *)
(*                                                                         *)
(* Scheduling: `run` is a coroutine on one asyncio event loop.  Its only   *)
(* awaits that reach the event loop are the two                            *)
(* client.chat.complete_async calls; every other `await` is of a coroutine *)
(* of this class whose body does blocking I/O (requests.get, .execute())   *)
(* and therefore runs to completion without yielding.  A turn is therefore *)
(* one atomic step for the synchronous intents and two steps (before and   *)
(* after the LLM answer) for CreateEvent and GeneralChat.                  *)
(***************************************************************************)
EXTENDS Integers, Sequences, FiniteSets, TLC

VARIABLES conversation_history, calendar, tasks, finished, received, appendLog,
          location_state

vars == <<conversation_history, calendar, tasks, finished, received, appendLog,
          location_state>>

(***************************************************************************)
(* Text: Python str operations used by the router.                         *)
(***************************************************************************)
UpperAlphabet == <<"A","B","C","D","E","F","G","H","I","J","K","L","M",
                   "N","O","P","Q","R","S","T","U","V","W","X","Y","Z">>

LowerAlphabet == <<"a","b","c","d","e","f","g","h","i","j","k","l","m",
                   "n","o","p","q","r","s","t","u","v","w","x","y","z">>

LowerChar(c) ==
    IF \E i \in 1..26 : UpperAlphabet[i] = c
    THEN LowerAlphabet[CHOOSE i \in 1..26 : UpperAlphabet[i] = c]
    ELSE c

\* str.lower()
Lower(s) == [i \in 1..Len(s) |-> LowerChar(s[i])]

\* s[i:i+len(p)] == p
MatchAt(s, p, i) ==
    /\ i >= 1
    /\ i + Len(p) - 1 <= Len(s)
    /\ \A k \in 1..Len(p) : s[i + k - 1] = p[k]

\* p in s
Contains(s, p) == \E i \in 1..(Len(s) - Len(p) + 1) : MatchAt(s, p, i)

\* s.find(p), 1-based; 0 when absent
Find(s, p) ==
    IF Contains(s, p)
    THEN CHOOSE i \in 1..(Len(s) - Len(p) + 1) :
            /\ MatchAt(s, p, i)
            /\ \A j \in 1..(i - 1) : ~MatchAt(s, p, j)
    ELSE 0

IsSpace(c) == c = " "

\* str.strip()
RECURSIVE LStrip(_)
LStrip(s) == IF s # <<>> /\ IsSpace(Head(s)) THEN LStrip(Tail(s)) ELSE s

RECURSIVE RStrip(_)
RStrip(s) ==
    IF s # <<>> /\ IsSpace(s[Len(s)]) THEN RStrip(SubSeq(s, 1, Len(s) - 1)) ELSE s

Strip(s) == RStrip(LStrip(s))

\* str.split(sep): the pieces between the non-overlapping occurrences of sep
RECURSIVE SplitOn(_, _)
SplitOn(s, sep) ==
    LET i == Find(s, sep)
    IN  IF i = 0
        THEN <<s>>
        ELSE <<SubSeq(s, 1, i - 1)>> \o SplitOn(SubSeq(s, i + Len(sep), Len(s)), sep)

\* str.split(): the whitespace-delimited tokens
RECURSIVE SplitWs(_)
SplitWs(s) ==
    LET t == LStrip(s)
    IN  IF t = <<>>
        THEN <<>>
        ELSE LET n == IF \E i \in 1..Len(t) : IsSpace(t[i])
                      THEN (CHOOSE i \in 1..Len(t) :
                               /\ IsSpace(t[i])
                               /\ \A j \in 1..(i - 1) : ~IsSpace(t[j])) - 1
                      ELSE Len(t)
             IN  <<SubSeq(t, 1, n)>> \o SplitWs(SubSeq(t, n + 1, Len(t)))

\* ' '.join(words)
RECURSIVE JoinWs(_)
JoinWs(ws) ==
    IF ws = <<>> THEN <<>>
    ELSE IF Len(ws) = 1 THEN ws[1]
    ELSE ws[1] \o <<" ">> \o JoinWs(Tail(ws))

Digits == <<"0","1","2","3","4","5","6","7","8","9">>

IsDigitChar(c) == \E i \in 1..10 : Digits[i] = c

DigitVal(c) == (CHOOSE i \in 1..10 : Digits[i] = c) - 1

\* str.isdigit()
IsDigit(s) == s # <<>> /\ \A i \in 1..Len(s) : IsDigitChar(s[i])

\* int(s) for a string of digits
RECURSIVE ToInt(_)
ToInt(s) ==
    IF s = <<>> THEN 0
    ELSE 10 * ToInt(SubSeq(s, 1, Len(s) - 1)) + DigitVal(s[Len(s)])

(***************************************************************************)
(* The messages the users send (message.content, as typed).                *)
(***************************************************************************)
MsgWhere == <<"W","h","e","r","e">>

MsgForget == <<"F","o","r","g","e","t">>

MsgReset == <<"r","e","s","e","t">>

MsgSchedule == <<"s","c","h","e","d","u","l","e"," ","a"," ","d","e","m","o">>

MsgSchedulePostpone == <<"s","c","h","e","d","u","l","e"," ","a"," ","p","o","s","t","p","o","n","e">>

MsgPostponeDemo2 == <<"p","o","s","t","p","o","n","e"," ","D","e","m","o"," ","2"," ","h","o","u","r","s">>

MsgPostponeDemo == <<"p","o","s","t","p","o","n","e"," ","D","e","m","o">>

MsgPostponeDem == <<"p","o","s","t","p","o","n","e"," ","d","e","m">>

MsgPostponeDemos == <<"p","o","s","t","p","o","n","e"," ","d","e","m","o","s">>

MsgPostponeLate == <<"p","o","s","t","p","o","n","e"," ","l","a","t","e">>

MsgPostponeOnly == <<"p","o","s","t","p","o","n","e">>

MsgPostponed == <<"p","o","s","t","p","o","n","e","d"," ","i","t">>

MsgPostponeOffsite == <<"p","o","s","t","p","o","n","e"," ","o","f","f","s","i","t","e"," ","2"," ","h","o","u","r","s">>

MsgUpdLoc == <<"u","p","d","a","t","e"," ","l","o","c","a","t","i","o","n"," ","o","f"," ","s","t","a","n","d","u","p"," ","t","o"," ","R","o","o","m"," ","5">>

MsgChangeLocAt == <<"c","h","a","n","g","e"," ","l","o","c","a","t","i","o","n"," ","o","f"," ","d","e","m","o"," ","a","t"," ","l","a","b">>

MsgUpdLocGone == <<"u","p","d","a","t","e"," ","l","o","c","a","t","i","o","n"," ","o","f"," ","g","o","n","e"," ","t","o"," ","l","a","b">>

MsgUpdLocNoOf == <<"u","p","d","a","t","e"," ","l","o","c","a","t","i","o","n"," ","s","t","a","n","d","u","p">>

MsgUpdLocNoConn == <<"u","p","d","a","t","e"," ","l","o","c","a","t","i","o","n"," ","o","f"," ","s","t","a","n","d","u","p">>

MsgUpdLocTwice == <<"u","p","d","a","t","e"," ","l","o","c","a","t","i","o","n"," ","o","f"," ","s","t","a","n","d","u","p"," ","t","o"," ","r","o","o","m"," ","5"," ","t","o"," ","g","o">>

MsgInviteChange == <<"i","n","v","i","t","e"," ","c","h","a","n","g","e"," ","l","o","c","a","t","i","o","n">>

MsgAddAtt == <<"a","d","d"," ","a","t","t","e","n","d","e","e"," ","d","e","m","o"," ","t","o"," ","a","@","x">>

MsgAddAttTwo == <<"a","d","d"," ","a","t","t","e","n","d","e","e"," ","D","e","m","o"," ","t","o"," ","a","@","x"," ","b","@","x"," ","a","@","x">>

MsgAddAttGone == <<"a","d","d"," ","a","t","t","e","n","d","e","e"," ","g","o","n","e"," ","t","o"," ","a","@","x">>

MsgAddAttNoMail == <<"a","d","d"," ","a","t","t","e","n","d","e","e"," ","d","e","m","o"," ","t","o"," ","b","o","b">>

MsgInviteFirst == <<"i","n","v","i","t","e"," ","a","@","x"," ","t","o"," ","d","e","m","o">>

MsgInviteToFor == <<"i","n","v","i","t","e"," ","t","o"," ","d","e","m","o"," ","f","o","r"," ","a","@","x">>

MsgHi == <<"h","i">>

MsgCalendar == <<"m","y"," ","c","a","l","e","n","d","a","r">>

MsgHowFar == <<"h","o","w"," ","f","a","r">>

LocationMessages == {MsgWhere}

ResetMessages == {MsgForget, MsgReset}

CreateMessages == {MsgSchedule, MsgSchedulePostpone}

PostponeMessages ==
    {MsgPostponeDemo2, MsgPostponeDemo, MsgPostponeDem, MsgPostponeDemos,
     MsgPostponeLate, MsgPostponeOnly, MsgPostponed, MsgPostponeOffsite}

UpdateLocationMessages ==
    {MsgUpdLoc, MsgChangeLocAt, MsgUpdLocGone, MsgUpdLocNoOf, MsgUpdLocNoConn,
     MsgUpdLocTwice, MsgInviteChange}

UpdateAttendeesMessages ==
    {MsgAddAtt, MsgAddAttTwo, MsgAddAttGone, MsgAddAttNoMail, MsgInviteFirst,
     MsgInviteToFor}

ChatMessages == {MsgHi, MsgCalendar, MsgHowFar}

Messages ==
    LocationMessages \cup ResetMessages \cup CreateMessages \cup PostponeMessages
    \cup UpdateLocationMessages \cup UpdateAttendeesMessages \cup ChatMessages

(***************************************************************************)
(* Intent classification: the chain of tests of run, lines 301-442.        *)
(***************************************************************************)
\* run, lines 304-312
location_queries ==
    {<<"w","h","a","t"," ","i","s"," ","m","y"," ","l","o","c","a","t","i","o","n">>, <<"w","h","e","r","e"," ","a","m"," ","i">>, <<"w","h","a","t","'","s"," ","m","y"," ","l","o","c","a","t","i","o","n">>, <<"w","h","e","r","e">>,
     <<"l","o","c","a","t","i","o","n">>, <<"w","h","a","t"," ","i","s"," ","m","y"," ","c","u","r","r","e","n","t"," ","l","o","c","a","t","i","o","n">>, <<"t","e","l","l"," ","m","e"," ","m","y"," ","l","o","c","a","t","i","o","n">>}

\* run, line 314
IsLocationQuery(msg_lower) == \E query \in location_queries : query = msg_lower

\* run, line 320
IsReset(msg_lower) == msg_lower = <<"f","o","r","g","e","t">> \/ msg_lower = <<"r","e","s","e","t">>

\* run, lines 325-326
IsCreateEvent(msg_lower) ==
    \E phrase \in {<<"s","c","h","e","d","u","l","e"," ","a">>, <<"c","r","e","a","t","e"," ","e","v","e","n","t">>, <<"a","d","d"," ","m","e","e","t","i","n","g">>, <<"n","e","w"," ","a","p","p","o","i","n","t","m","e","n","t">>} :
        Contains(msg_lower, phrase)

\* run, line 364
IsPostpone(msg_lower) == Contains(msg_lower, <<"p","o","s","t","p","o","n","e">>)

\* run, line 391
IsUpdateLocation(msg_lower) ==
    Contains(msg_lower, <<"u","p","d","a","t","e"," ","l","o","c","a","t","i","o","n">>) \/ Contains(msg_lower, <<"c","h","a","n","g","e"," ","l","o","c","a","t","i","o","n">>)

\* run, line 421
IsUpdateAttendees(msg_lower) ==
    Contains(msg_lower, <<"a","d","d"," ","a","t","t","e","n","d","e","e">>) \/ Contains(msg_lower, <<"i","n","v","i","t","e">>)

\* Intent with the postpone test moved before the creation test
Intent_postpone_first(content) ==
    LET msg_lower == Lower(content)
    IN  IF IsLocationQuery(msg_lower) THEN "LocationQuery"
        ELSE IF IsReset(msg_lower) THEN "Reset"
        ELSE IF IsPostpone(msg_lower) THEN "Postpone"
        ELSE IF IsCreateEvent(msg_lower) THEN "CreateEvent"
        ELSE IF IsUpdateLocation(msg_lower) THEN "UpdateLocation"
        ELSE IF IsUpdateAttendees(msg_lower) THEN "UpdateAttendees"
        ELSE "GeneralChat"

\* The branch of run that handles the message: the first test that succeeds.
Intent(content) ==
    LET msg_lower == Lower(content)
    IN  IF IsLocationQuery(msg_lower) THEN "LocationQuery"
        ELSE IF IsReset(msg_lower) THEN "Reset"
        ELSE IF IsCreateEvent(msg_lower) THEN "CreateEvent"
        ELSE IF IsPostpone(msg_lower) THEN "Postpone"
        ELSE IF IsUpdateLocation(msg_lower) THEN "UpdateLocation"
        ELSE IF IsUpdateAttendees(msg_lower) THEN "UpdateAttendees"
        ELSE "GeneralChat"

(***************************************************************************)
(* Parameter extraction by token heuristics.                               *)
(***************************************************************************)
\* run, lines 367-379: the loop over the tokens; the last 'postpone' that has
\* a successor and the last 'hour(s)' that follows a number decide.
RECURSIVE PostponeScan(_, _, _, _)
PostponeScan(words, i, event_name, hours) ==
    IF i > Len(words)
    THEN [event_name |-> event_name, hours |-> hours]
    ELSE IF words[i] = <<"p","o","s","t","p","o","n","e">>
    THEN PostponeScan(words, i + 1,
                      IF i + 1 <= Len(words) THEN words[i + 1] ELSE event_name,
                      hours)
    ELSE IF words[i] \in {<<"h","o","u","r">>, <<"h","o","u","r","s">>}
    THEN PostponeScan(words, i + 1, event_name,
                      IF i > 1 /\ IsDigit(words[i - 1]) THEN ToInt(words[i - 1])
                      ELSE hours)
    ELSE PostponeScan(words, i + 1, event_name, hours)

\* ExtractPostpone with the word postpone as the name when none follows
ExtractPostpone_name_defaulted(msg_lower) ==
    PostponeScan(SplitWs(msg_lower), 1, <<"p","o","s","t","p","o","n","e">>, 1)

\* run, lines 367-381; event_name <<>> stands for None
ExtractPostpone(msg_lower) == PostponeScan(SplitWs(msg_lower), 1, <<>>, 1)

\* run, lines 394-414.  kind: "no_of" and "no_connector" and "empty" are the
\* three usage hints, "raise" is the ValueError of unpacking a split that
\* has more than two pieces.
ExtractUpdateLocation(msg_lower) ==
    LET none == [kind |-> "no_of", event_name |-> <<>>, new_location |-> <<>>]
        parts ==
            IF Contains(msg_lower, <<"u","p","d","a","t","e"," ","l","o","c","a","t","i","o","n"," ","o","f">>)
            THEN SplitOn(msg_lower, <<"u","p","d","a","t","e"," ","l","o","c","a","t","i","o","n"," ","o","f">>)[2]
            ELSE SplitOn(msg_lower, <<"c","h","a","n","g","e"," ","l","o","c","a","t","i","o","n"," ","o","f">>)[2]
        pieces ==
            IF Contains(parts, <<" ","t","o"," ">>) THEN SplitOn(parts, <<" ","t","o"," ">>)
            ELSE SplitOn(parts, <<" ","a","t"," ">>)
    IN  IF ~Contains(msg_lower, <<"u","p","d","a","t","e"," ","l","o","c","a","t","i","o","n"," ","o","f">>)
           /\ ~Contains(msg_lower, <<"c","h","a","n","g","e"," ","l","o","c","a","t","i","o","n"," ","o","f">>)
        THEN none
        ELSE IF ~Contains(parts, <<" ","t","o"," ">>) /\ ~Contains(parts, <<" ","a","t"," ">>)
        THEN [none EXCEPT !.kind = "no_connector"]
        ELSE IF Len(pieces) # 2
        THEN [none EXCEPT !.kind = "raise"]
        ELSE IF Strip(pieces[1]) = <<>> \/ Strip(pieces[2]) = <<>>
        THEN [none EXCEPT !.kind = "empty"]
        ELSE [kind |-> "ok", event_name |-> Strip(pieces[1]),
              new_location |-> Strip(pieces[2])]

\* [word for word in words if '@' in word]
RECURSIVE EmailTokens(_)
EmailTokens(words) ==
    IF words = <<>> THEN <<>>
    ELSE (IF Contains(Head(words), <<"@">>) THEN <<Head(words)>> ELSE <<>>)
         \o EmailTokens(Tail(words))

\* run, lines 423-433: the first token 'to'/'for' at a 0-based index > 0
\* (1-based index > 1) ends the scan
ExtractUpdateAttendees(msg_lower) ==
    LET words == SplitWs(msg_lower)
        hits == {i \in 2..Len(words) : words[i] \in {<<"t","o">>, <<"f","o","r">>}}
    IN  IF hits = {}
        THEN [event_name |-> <<>>, attendees |-> <<>>]
        ELSE LET i == CHOOSE k \in hits : \A j \in hits : k <= j
             IN  [event_name |-> JoinWs(SubSeq(words, 3, i - 1)),
                  attendees |-> EmailTokens(SubSeq(words, i + 1, Len(words)))]

(***************************************************************************)
(* Bounds of the model and constants of the program.                       *)
(***************************************************************************)
\* number of messages received in a run of Spec
MaxTurns == 1

\* __init__, line 37
memory_limit == 10

\* get_local_time, lines 505-507: the hour of day 0 at which the turns run
\* (time is counted in hours from midnight of day 0; the model's runs are
\* short enough that the clock is read as one instant)
NowHour == 9

\* postpone_event, update_event_location, update_event_attendees: the
\* max_results handed to get_upcoming_events (lines 551, 598, 626)
search_window == 10

\* run, line 454
digest_window == 5

Users == {"u1", "u2"}

\* self.location (constructor, lines 29-31) and str(self.timezone)
location_label == <<"c","i","t","y">>

timezone_name == "tz"

(***************************************************************************)
(* Conversation memory, lines 270-283.                                     *)
(* conversation_history is the dict: a function whose domain is the set of *)
(* user ids that have an entry.                                            *)
(***************************************************************************)
Turn(role, content) == [role |-> role, content |-> content]

\* the entry of the user is replaced by an empty list
EntryCreated_emptied(history_map, user_id) ==
    [u \in DOMAIN history_map \cup {user_id} |->
        IF u = user_id THEN <<>> ELSE history_map[u]]

\* get_conversation_history, lines 272-273: the dict after the lazy creation
EntryCreated(history_map, user_id) ==
    IF user_id \in DOMAIN history_map
    THEN history_map
    ELSE [u \in DOMAIN history_map \cup {user_id} |->
            IF u = user_id THEN <<>> ELSE history_map[u]]

\* get_conversation_history reading one list for every user
get_conversation_history_shared(history_map, user_id) ==
    IF DOMAIN history_map = {} THEN <<>>
    ELSE history_map[CHOOSE u \in DOMAIN history_map : TRUE]

\* get_conversation_history, line 274: the list returned
get_conversation_history(history_map, user_id) ==
    EntryCreated(history_map, user_id)[user_id]

\* add_to_history evicting the newest turn instead of the oldest
add_to_history_evict_newest(history_map, user_id, role, content) ==
    LET created == EntryCreated(history_map, user_id)
        history == Append(created[user_id], Turn(role, content))
        trimmed == IF Len(history) > memory_limit
                   THEN SubSeq(history, 1, Len(history) - 1) ELSE history
    IN  [created EXCEPT ![user_id] = trimmed]

\* add_to_history, lines 278-283: the dict after the append and the trim
add_to_history(history_map, user_id, role, content) ==
    LET created == EntryCreated(history_map, user_id)
        history == Append(created[user_id], Turn(role, content))
        trimmed == IF Len(history) > memory_limit THEN Tail(history) ELSE history
    IN  [created EXCEPT ![user_id] = trimmed]

\* clear_history emptying the memory of every user
clear_history_everyone(history_map, user_id) ==
    [u \in DOMAIN history_map \cup {user_id} |-> <<>>]

\* run, line 321
clear_history(history_map, user_id) ==
    [EntryCreated(history_map, user_id) EXCEPT ![user_id] = <<>>]

\* the user turn is appended without the reply
exchange_appended_user_only(history_map, user_id, content, reply) ==
    add_to_history(history_map, user_id, "user", content)

\* run, lines 478-479: the two appends of one exchange
exchange_appended(history_map, user_id, content, reply) ==
    add_to_history(add_to_history(history_map, user_id, "user", content),
                   user_id, "assistant", reply)

(***************************************************************************)
(* Calendar events are dicts: records whose optional keys (location,       *)
(* attendees) may be absent.  start and end are dicts with dateTime and    *)
(* timeZone, or with date alone for an all-day event.  calendar is the     *)
(* backend's store, a sequence of events in insertion order.               *)
(***************************************************************************)
Has(dict, key) == key \in DOMAIN dict

\* dict[key] = value
Put(dict, key, value) ==
    [k \in DOMAIN dict \cup {key} |-> IF k = key THEN value ELSE dict[k]]

\* dict.update(other)
Updated(dict, other) ==
    [k \in DOMAIN dict \cup DOMAIN other |-> IF k \in DOMAIN other THEN other[k] ELSE dict[k]]

TimedAt(t) == [dateTime |-> t, timeZone |-> timezone_name]

AllDayAt(t) == [date |-> t]

Event(id, summary, start, end) ==
    [id |-> id, summary |-> summary, start |-> TimedAt(start), end |-> TimedAt(end)]

\* event['start'].get('dateTime', event['start'].get('date'))
StartOf(event) ==
    IF Has(event.start, "dateTime") THEN event.start.dateTime ELSE event.start.date

EndOf(event) ==
    IF Has(event.end, "dateTime") THEN event.end.dateTime ELSE event.end.date

\* get_upcoming_events, lines 96-103: timeMin = now keeps the events that
\* end after now; orderBy = startTime (ties in insertion order); at most
\* max_results of them.
RECURSIVE SortedByStart(_, _)
SortedByStart(cal, left) ==
    IF left = {} THEN <<>>
    ELSE LET i == CHOOSE k \in left :
                    \A j \in left :
                        \/ StartOf(cal[k]) < StartOf(cal[j])
                        \/ (StartOf(cal[k]) = StartOf(cal[j]) /\ k <= j)
         IN  <<cal[i]>> \o SortedByStart(cal, left \ {i})

get_upcoming_events(cal, max_results) ==
    LET upcoming == SortedByStart(cal, {i \in 1..Len(cal) : EndOf(cal[i]) > NowHour})
    IN  SubSeq(upcoming, 1, IF Len(upcoming) < max_results THEN Len(upcoming)
                            ELSE max_results)

\* find_target matching a summary that contains the name
find_target_substring(events, event_summary) ==
    LET hits == {i \in 1..Len(events) :
                    Contains(Lower(events[i].summary), Lower(event_summary))}
    IN  IF hits = {} THEN 0 ELSE CHOOSE i \in hits : \A j \in hits : i <= j

\* find_target falling back to the first listed event
find_target_or_first(events, event_summary) ==
    LET hits == {i \in 1..Len(events) :
                    Lower(events[i].summary) = Lower(event_summary)}
    IN  IF hits = {} THEN (IF events = <<>> THEN 0 ELSE 1)
        ELSE CHOOSE i \in hits : \A j \in hits : i <= j

\* postpone_event lines 552-557 (and 599-604, 627-632): the first listed event
\* whose summary equals the name, case-insensitively; 0 stands for None
find_target(events, event_summary) ==
    LET hits == {i \in 1..Len(events) :
                    Lower(events[i].summary) = Lower(event_summary)}
    IN  IF hits = {} THEN 0 ELSE CHOOSE i \in hits : \A j \in hits : i <= j

\* events().get(eventId): the stored event with that id
stored_event(cal, event_id) ==
    cal[CHOOSE i \in 1..Len(cal) : cal[i].id = event_id]

\* events().update(eventId, body): the store with that event replaced
calendar_updated(cal, event_id, body) ==
    [i \in 1..Len(cal) |-> IF cal[i].id = event_id THEN body ELSE cal[i]]

\* merged_event replacing a nested value as a whole
merged_event_replacing(event, changes) ==
    [key \in DOMAIN event \cup DOMAIN changes |->
        IF key \in DOMAIN changes THEN changes[key] ELSE event[key]]

\* modify_event, lines 519-528: the body sent to update
merged_event(event, changes) ==
    LET nested == {"start", "end"}
        merge(key) ==
            IF key \in DOMAIN changes
            THEN IF key \in nested
                 THEN Updated(IF Has(event, key) THEN event[key] ELSE << >>, changes[key])
                 ELSE changes[key]
            ELSE event[key]
    IN  [key \in DOMAIN event \cup DOMAIN changes |-> merge(key)]

(***************************************************************************)
(* Location state: the attributes location, latitude, longitude and        *)
(* timezone of the agent, lines 29-31, 38-39 and 483-503.  The state is a   *)
(* dict of the attributes that have been assigned.                         *)
(***************************************************************************)
\* pytz.timezone('America/Los_Angeles'), line 503.  The turns of Spec run in
\* an agent whose refresh fell back to it, so str(self.timezone) is this zone.
default_zone == timezone_name

\* get_ip_location, line 70
location_unknown == <<"L","o","c","a","t","i","o","n"," ","u","n","k","n","o","w","n">>

\* f"{data['city']}, {data['regionName']}, {data['country']}", line 490
location_of(data) ==
    data.city \o <<","," ">> \o data.regionName \o <<","," ">> \o data.country

Latitudes == {0, 48, 91}

Longitudes == {0, 2}

Cities == {<<"P","a","r","i","s">>, <<"L","o","m","e">>}

\* self.tf.timezone_at(lat=..., lng=...), line 495: the zone of a point on
\* land, None for a point at sea, ValueError for coordinates out of range
timezone_at(lat, lng) ==
    IF lat > 90 \/ lat < -90 \/ lng > 180 \/ lng < -180 THEN "ValueError"
    ELSE IF lat = 48 THEN "Europe/Paris"
    ELSE "None"

\* the body of a geolocation answer that reports success
Success(city, lat, lon) ==
    [status |-> "success", city |-> city, regionName |-> <<"R">>, country |-> <<"C">>,
     lat |-> lat, lon |-> lon]

\* dict without one key
Without(dict, key) == [k \in DOMAIN dict \ {key} |-> dict[k]]

\* what requests.get(...).json() of lines 487-488 gives: an exception (no
\* connection, timeout after 5 s, a body that is not JSON), or a dict
GeoAnswers ==
    {[kind |-> "raises"]}
    \cup {[kind |-> "json", data |-> [message |-> "quota"]]}
    \cup {[kind |-> "json", data |-> [status |-> "fail"]]}
    \cup {[kind |-> "json", data |-> Success(city, lat, lon)] :
             city \in Cities, lat \in Latitudes, lon \in Longitudes}
    \cup {[kind |-> "json", data |-> Without(Success(<<"P","a","r","i","s">>, 48, 2), key)] :
             key \in {"city", "lat", "lon"}}

\* the except branch, lines 500-503
timezone_fallback_dropped(state) == state

timezone_fallback(state) == Put(state, "timezone", default_zone)

\* update_location_and_timezone, lines 483-503: an assignment made before
\* the exception is kept
update_location_and_timezone(state, answer) ==
    IF answer.kind = "raises" THEN timezone_fallback(state)
    ELSE LET data == answer.data
         IN  IF ~Has(data, "status") THEN timezone_fallback(state)
             ELSE IF data.status # "success" THEN timezone_fallback(state)
             ELSE IF ~(Has(data, "city") /\ Has(data, "regionName")
                       /\ Has(data, "country"))
             THEN timezone_fallback(state)
             ELSE LET located == Put(state, "location", location_of(data))
                  IN  IF ~Has(data, "lat") THEN timezone_fallback(located)
                      ELSE LET lat == Put(located, "latitude", data.lat)
                           IN  IF ~Has(data, "lon") THEN timezone_fallback(lat)
                               ELSE LET lon == Put(lat, "longitude", data.lon)
                                        timezone_str == timezone_at(data.lat, data.lon)
                                    IN  IF timezone_str \in {"None", "ValueError"}
                                        THEN timezone_fallback(lon)
                                        ELSE Put(lon, "timezone", timezone_str)

\* the constructor, lines 29-31 and 39: self.location is USER_LOCATION or
\* what get_ip_location returned, then the first refresh
StartLocations == {location_label, location_unknown}

Constructed(start, answer) ==
    update_location_and_timezone([location |-> start], answer)

(***************************************************************************)
(* The calendars the runs start from.                                      *)
(***************************************************************************)
\* two events named demo up to case (the later-starting one inserted first),
\* one with a location and an attendee, an all-day event and a past event
CalendarSmall ==
    << Event(1, <<"D","E","M","O">>, 40, 41),
       Put(Put(Event(2, <<"s","t","a","n","d","u","p">>, 20, 21), "location", <<"h","q">>),
           "attendees", <<[email |-> <<"b","@","x">>]>>),
       Event(3, <<"D","e","m","o">>, 30, 32),
       [id |-> 4, summary |-> <<"o","f","f","s","i","t","e">>, start |-> AllDayAt(48), end |-> AllDayAt(72)],
       Event(5, <<"g","o","n","e">>, 1, 2) >>

\* ten events that start before the event named late
CalendarFull ==
    [i \in 1..11 |-> IF i <= 10 THEN Event(i, <<"f">>, 9 + i, 10 + i)
                     ELSE Event(11, <<"l","a","t","e">>, 50, 51)]

Calendars == {CalendarSmall, CalendarFull}

(***************************************************************************)
(* A turn: one invocation of run.  pc is the await the coroutine is        *)
(* suspended at, or "done"; outcome is "replied" when run returned a text  *)
(* and "raised" when an exception left run; extracted is the text the      *)
(* extraction call of a CreateEvent turn returned.                         *)
(***************************************************************************)
Reply(kind, arg, detail) == [kind |-> kind, arg |-> arg, detail |-> detail]

NoReply == Reply("none", <<>>, "")

Call(op, arg) == [op |-> op, arg |-> arg]

NoContext ==
    [location |-> <<>>, weather |-> FALSE, calendar |-> "absent", digest |-> <<>>,
     travel |-> "absent"]

NoPrompt == [system |-> "none", history |-> <<>>, context |-> NoContext, text |-> <<>>]

\* the tests and the token heuristics of run, tabulated over the messages
IntentOf == [content \in Messages |-> Intent(content)]

LowerOf == [content \in Messages |-> Lower(content)]

PostponeCmdOf == [content \in Messages |-> ExtractPostpone(Lower(content))]

UpdateLocationCmdOf == [content \in Messages |-> ExtractUpdateLocation(Lower(content))]

UpdateAttendeesCmdOf == [content \in Messages |-> ExtractUpdateAttendees(Lower(content))]

MessagesOf(intent) == {content \in Messages : Intent(content) = intent}

NewTask(user_id, content) ==
    [user |-> user_id, content |-> content, intent |-> IntentOf[content],
     pc |-> "running", outcome |-> "pending", reply |-> NoReply, prompt |-> NoPrompt,
     calls |-> <<>>, event_name |-> <<>>, hours |-> 0, new_location |-> <<>>,
     attendees |-> <<>>, target |-> 0, listing |-> [status |-> "none", ids |-> <<>>],
     extracted |-> <<>>]

\* no turn ended at the last step
NoTask ==
    [user |-> "none", content |-> <<>>, intent |-> "none",
     pc |-> "none", outcome |-> "none", reply |-> NoReply, prompt |-> NoPrompt,
     calls |-> <<>>, event_name |-> <<>>, hours |-> 0, new_location |-> <<>>,
     attendees |-> <<>>, target |-> 0, listing |-> [status |-> "none", ids |-> <<>>],
     extracted |-> <<>>]

Replied(task, reply, calls) ==
    [task EXCEPT !.pc = "done", !.outcome = "replied", !.reply = reply,
                 !.calls = task.calls \o calls]

Raised(task, calls) ==
    [task EXCEPT !.pc = "done", !.outcome = "raised", !.calls = task.calls \o calls]

\* the sequence without its t-th element
Remove(seq, t) == SubSeq(seq, 1, t - 1) \o SubSeq(seq, t + 1, Len(seq))

(***************************************************************************)
(* State.  tasks holds the turns suspended at an LLM call, in the order    *)
(* they were received; finished is the turn that ended at the last step    *)
(* (what run returned or raised to the transport); received counts the     *)
(* messages received; appendLog records, per user, the turns appended to   *)
(* the memory since it was last cleared.                                   *)
(***************************************************************************)
Init ==
    /\ conversation_history = [u \in {} |-> <<>>]
    /\ calendar \in Calendars
    /\ tasks = <<>>
    /\ finished = NoTask
    /\ received = 0
    /\ appendLog = [u \in Users |-> <<>>]
    /\ location_state = Constructed(location_label, [kind |-> "raises"])

\* a turn ran to its end within the step that received the message
Ends(task) ==
    /\ finished' = task
    /\ received' = received + 1
    /\ UNCHANGED <<tasks, location_state>>

\* a turn was suspended at an LLM call within the step that received it
Suspends(task) ==
    /\ tasks' = Append(tasks, task)
    /\ finished' = NoTask
    /\ received' = received + 1
    /\ UNCHANGED location_state

\* the suspended turn t ran to its end
Resumes(t, task) ==
    /\ tasks' = Remove(tasks, t)
    /\ finished' = task
    /\ UNCHANGED <<received, location_state>>

(***************************************************************************)
(* LocationQuery: run lines 314-315 and get_location_details, 285-297.     *)
(***************************************************************************)
\* geo is the answer of the geolocation service: "ok", or "fail" for a
\* status other than success or an exception (both absorbed, lines 290-296)
get_location_details(geo) ==
    IF geo = "ok" THEN Reply("location_details", location_label, timezone_name)
    ELSE Reply("location_label", location_label, "")

LocationQuery(user_id, content) ==
    /\ IntentOf[content] = "LocationQuery"
    /\ \E geo \in {"ok", "fail"} :
          Ends(Replied(NewTask(user_id, content), get_location_details(geo),
                       <<Call("geolocation", 0)>>))
    /\ UNCHANGED <<conversation_history, calendar, appendLog>>

(***************************************************************************)
(* Reset: run lines 318-322.                                               *)
(***************************************************************************)
ResetHistory(user_id, content) ==
    /\ IntentOf[content] = "Reset"
    /\ conversation_history' = clear_history(conversation_history, user_id)
    /\ appendLog' = [appendLog EXCEPT ![user_id] = <<>>]
    /\ Ends(Replied(NewTask(user_id, content), Reply("reset_confirmation", <<>>, ""),
                    <<>>))
    /\ UNCHANGED calendar

(***************************************************************************)
(* Calendar mutations.  An operation yields the calendar afterwards, the   *)
(* text it returns, the calls it issued and the event it resolved.         *)
(***************************************************************************)
\* the calendar call that raises in this turn, if any: list, get and update
\* are issued in this order and the first to raise ends the operation
Faults == {"none", "list", "get", "update"}

\* the local variable events of an operation: the ids listed, or that the
\* listing raised
Listing(status, events) ==
    [status |-> status, ids |-> [i \in 1..Len(events) |-> events[i].id]]

Outcome(cal, reply, calls, target, listing) ==
    [calendar |-> cal, reply |-> reply, calls |-> calls, target |-> target,
     listing |-> listing]

\* modify_event, lines 509-545; the value of an isinstance(value, dict) test
\* is decided in merged_event by the key, since the callers pass dicts for
\* start and end only
modify_event(cal, event_id, changes, faults) ==
    IF faults = "get"
    THEN [calendar |-> cal, result |-> "modify_failed",
          calls |-> <<Call("get", event_id)>>]
    ELSE IF faults = "update"
    THEN [calendar |-> cal, result |-> "modify_failed",
          calls |-> <<Call("get", event_id), Call("update", event_id)>>]
    ELSE [calendar |->
             calendar_updated(cal, event_id,
                              merged_event(stored_event(cal, event_id), changes)),
          result |-> "updated",
          calls |-> <<Call("get", event_id), Call("update", event_id)>>]

\* postpone_event moving the start and leaving the end where it was
postpone_event_end_kept(cal, event_summary, hours, faults) ==
    LET events == get_upcoming_events(cal, search_window)
        found == find_target(events, event_summary)
        listed == <<Call("list", search_window)>>
    IN  IF faults = "list" \/ found = 0
        THEN Outcome(cal, Reply("could_not_find", event_summary, ""), listed, 0,
                     Listing("ok", events))
        ELSE LET target_event == events[found]
                 changes ==
                     [start |-> TimedAt(IF Has(target_event.start, "dateTime")
                                        THEN target_event.start.dateTime + hours
                                        ELSE hours)]
                 done == modify_event(cal, target_event.id, changes, faults)
             IN  Outcome(done.calendar, Reply("postponed", event_summary, done.result),
                         listed \o done.calls, target_event.id, Listing("ok", events))

\* postpone_event, lines 547-592
postpone_event(cal, event_summary, hours, faults) ==
    LET events == get_upcoming_events(cal, search_window)
        found == find_target(events, event_summary)
        listed == <<Call("list", search_window)>>
    IN  IF faults = "list"
        THEN Outcome(cal, Reply("postpone_failed", event_summary, ""), listed, 0,
                     Listing("raised", <<>>))
        ELSE IF found = 0
        THEN Outcome(cal, Reply("could_not_find", event_summary, ""), listed, 0,
                     Listing("ok", events))
        ELSE LET target_event == events[found]
             IN  IF ~Has(target_event.start, "dateTime") \/ ~Has(target_event.end, "dateTime")
                 THEN Outcome(cal, Reply("postpone_failed", event_summary, ""),
                              listed, target_event.id, Listing("ok", events))
                 ELSE LET changes ==
                              [start |-> TimedAt(target_event.start.dateTime + hours),
                               end |-> TimedAt(target_event.end.dateTime + hours)]
                          done == modify_event(cal, target_event.id, changes, faults)
                      IN  Outcome(done.calendar,
                                  Reply("postponed", event_summary, done.result),
                                  listed \o done.calls, target_event.id,
                                  Listing("ok", events))

\* update_event_location, lines 594-620
update_event_location(cal, event_summary, new_location, faults) ==
    LET events == get_upcoming_events(cal, search_window)
        found == find_target(events, event_summary)
        listed == <<Call("list", search_window)>>
    IN  IF faults = "list"
        THEN Outcome(cal, Reply("update_location_failed", event_summary, ""), listed, 0,
                     Listing("raised", <<>>))
        ELSE IF found = 0
        THEN Outcome(cal, Reply("could_not_find", event_summary, ""), listed, 0,
                     Listing("ok", events))
        ELSE LET target_event == events[found]
                 changes == [location |-> new_location]
                 done == modify_event(cal, target_event.id, changes, faults)
             IN  Outcome(done.calendar,
                         Reply("location_updated", event_summary, done.result),
                         listed \o done.calls, target_event.id, Listing("ok", events))

\* no email is new
new_attendees_none(attendees, existing_emails) == <<>>

\* [{'email': email} for email in attendees if email not in existing_emails]
RECURSIVE new_attendees(_, _)
new_attendees(attendees, existing_emails) ==
    IF attendees = <<>> THEN <<>>
    ELSE (IF Head(attendees) \in existing_emails THEN <<>>
          ELSE <<[email |-> Head(attendees)]>>)
         \o new_attendees(Tail(attendees), existing_emails)

\* update_event_attendees, lines 622-656
update_event_attendees(cal, event_summary, attendees, faults) ==
    LET events == get_upcoming_events(cal, search_window)
        found == find_target(events, event_summary)
        listed == <<Call("list", search_window)>>
    IN  IF faults = "list"
        THEN Outcome(cal, Reply("update_attendees_failed", event_summary, ""), listed, 0,
                     Listing("raised", <<>>))
        ELSE IF found = 0
        THEN Outcome(cal, Reply("could_not_find", event_summary, ""), listed, 0,
                     Listing("ok", events))
        ELSE LET target_event == events[found]
                 existing_attendees ==
                     IF Has(target_event, "attendees") THEN target_event.attendees
                     ELSE <<>>
                 existing_emails ==
                     {existing_attendees[i].email : i \in 1..Len(existing_attendees)}
                 changes ==
                     [attendees |->
                         existing_attendees \o new_attendees(attendees, existing_emails)]
                 done == modify_event(cal, target_event.id, changes, faults)
             IN  Outcome(done.calendar,
                         Reply("attendees_updated", event_summary, done.result),
                         listed \o done.calls, target_event.id, Listing("ok", events))

(***************************************************************************)
(* The command turns of run.  Line 318 creates the user's memory entry     *)
(* before the tests of the command intents.                                *)
(***************************************************************************)
Finish(task, out) ==
    [Replied(task, out.reply, out.calls) EXCEPT !.target = out.target,
                                                !.listing = out.listing]

\* run, lines 364-388
Postpone(user_id, content) ==
    /\ IntentOf[content] = "Postpone"
    /\ conversation_history' = EntryCreated(conversation_history, user_id)
    /\ LET cmd == PostponeCmdOf[content]
           task == [NewTask(user_id, content) EXCEPT
                       !.event_name = cmd.event_name, !.hours = cmd.hours]
       IN  IF cmd.event_name = <<>>
           THEN /\ Ends(Replied(task, Reply("postpone_usage", <<>>, ""), <<>>))
                /\ UNCHANGED calendar
           ELSE \E faults \in Faults :
                   LET out == postpone_event(calendar, cmd.event_name, cmd.hours, faults)
                   IN  /\ Ends(Finish(task, out))
                       /\ calendar' = out.calendar
    /\ UNCHANGED appendLog

\* run, lines 391-418
UpdateLocation(user_id, content) ==
    /\ IntentOf[content] = "UpdateLocation"
    /\ conversation_history' = EntryCreated(conversation_history, user_id)
    /\ LET cmd == UpdateLocationCmdOf[content]
           task == [NewTask(user_id, content) EXCEPT
                       !.event_name = cmd.event_name,
                       !.new_location = cmd.new_location]
           direct(kind) ==
               /\ Ends(Replied(task, Reply(kind, <<>>, ""), <<>>))
               /\ UNCHANGED calendar
       IN  CASE cmd.kind = "no_of" -> direct("update_location_usage_format")
             [] cmd.kind = "no_connector" -> direct("update_location_usage_connector")
             [] cmd.kind = "empty" -> direct("update_location_usage_both")
             [] cmd.kind = "raise" -> direct("update_location_failed")
             [] cmd.kind = "ok" ->
                   \E faults \in Faults :
                      LET out == update_event_location(calendar, cmd.event_name,
                                                       cmd.new_location, faults)
                      IN  /\ Ends(Finish(task, out))
                          /\ calendar' = out.calendar
    /\ UNCHANGED appendLog

\* run, lines 421-442
UpdateAttendees(user_id, content) ==
    /\ IntentOf[content] = "UpdateAttendees"
    /\ conversation_history' = EntryCreated(conversation_history, user_id)
    /\ LET cmd == UpdateAttendeesCmdOf[content]
           task == [NewTask(user_id, content) EXCEPT
                       !.event_name = cmd.event_name, !.attendees = cmd.attendees]
       IN  IF cmd.event_name = <<>> \/ cmd.attendees = <<>>
           THEN /\ Ends(Replied(task, Reply("update_attendees_usage", <<>>, ""), <<>>))
                /\ UNCHANGED calendar
           ELSE \E faults \in Faults :
                   LET out == update_event_attendees(calendar, cmd.event_name,
                                                     cmd.attendees, faults)
                   IN  /\ Ends(Finish(task, out))
                       /\ calendar' = out.calendar
    /\ UNCHANGED appendLog

(***************************************************************************)
(* CreateEvent: run lines 325-361 and create_event, lines 202-268.         *)
(* The text the LLM returns is a sequence of lines; a line is a code       *)
(* fence, a JSON object (a dict) or other text.  start_time is "tomorrow", *)
(* an ISO time (its hour) or a text fromisoformat rejects.                 *)
(***************************************************************************)
FenceLine == [kind |-> "fence", obj |-> << >>]

TextLine == [kind |-> "text", obj |-> << >>]

JsonLine(obj) == [kind |-> "json", obj |-> obj]

Tomorrow == [kind |-> "tomorrow", hour |-> 0]

IsoTime(t) == [kind |-> "iso", hour |-> t]

BadTime == [kind |-> "bad", hour |-> 0]

ExtractReplies ==
    { <<JsonLine([summary |-> <<"d","e","m","o">>, start_time |-> Tomorrow])>>,
      <<FenceLine,
        JsonLine([summary |-> <<"l","a","t","e">>, start_time |-> IsoTime(60), location |-> <<"l","a","b">>]),
        FenceLine>>,
      <<FenceLine, JsonLine([summary |-> <<"d","e","m","o">>, start_time |-> BadTime])>>,
      <<FenceLine>>,
      <<TextLine>>,
      <<JsonLine([summary |-> <<"d","e","m","o">>])>>,
      <<JsonLine([start_time |-> Tomorrow])>> }

\* run, lines 345-347; raised is the IndexError of split('\n', 1)[1] on a
\* text of one line
strip_fence(lines) ==
    IF lines # <<>> /\ lines[1].kind = "fence"
    THEN IF Len(lines) = 1 THEN [raised |-> TRUE, lines |-> <<>>]
         ELSE LET rest == Tail(lines)
              IN  [raised |-> FALSE,
                   lines |-> IF Len(rest) >= 2 THEN SubSeq(rest, 1, Len(rest) - 1)
                             ELSE rest]
    ELSE [raised |-> FALSE, lines |-> lines]

\* event_info_of with an event of its own when the text gives none
event_info_of_defaulting(lines) ==
    IF \E i \in 1..Len(lines) :
          /\ lines[i].kind = "json"
          /\ Has(lines[i].obj, "summary") /\ Has(lines[i].obj, "start_time")
    THEN [raised |-> FALSE,
          obj |-> lines[CHOOSE i \in 1..Len(lines) : lines[i].kind = "json"].obj]
    ELSE [raised |-> FALSE, obj |-> [summary |-> <<"e","v","e","n","t">>, start_time |-> Tomorrow]]

\* run, lines 349-355: raised when json.loads fails or a required key is
\* missing, else the dict
event_info_of(lines) ==
    LET stripped == strip_fence(lines)
        content == stripped.lines
        failed == [raised |-> TRUE, obj |-> << >>]
    IN  IF stripped.raised THEN failed
        ELSE IF Len(content) # 1 \/ content[1].kind # "json" THEN failed
        ELSE IF ~Has(content[1].obj, "summary") \/ ~Has(content[1].obj, "start_time")
        THEN failed
        ELSE [raised |-> FALSE, obj |-> content[1].obj]

\* the calendar call of create_event that raises, if any
InsertFaults == {"none", "insert", "get"}

\* create_event, lines 208-218: the start as an hour; -1 when fromisoformat
\* raises
start_hour(start_time) ==
    IF start_time.kind = "tomorrow" THEN 24 + 12
    ELSE IF start_time.kind = "iso" THEN start_time.hour
    ELSE -1

\* create_event, lines 204-268
create_event(cal, summary, start_time, location, faults) ==
    LET start_dt == start_hour(start_time)
        end_dt == start_dt + 1
        event == [summary |-> summary, start |-> TimedAt(start_dt), end |-> TimedAt(end_dt)]
        body == IF location # <<>> THEN Put(event, "location", location) ELSE event
        id == Len(cal) + 1
        inserted == Append(cal, Put(body, "id", id))
    IN  IF start_dt = -1
        THEN [calendar |-> cal, result |-> "create_failed", calls |-> <<>>]
        ELSE IF faults = "insert"
        THEN [calendar |-> cal, result |-> "create_failed",
              calls |-> <<Call("insert", 0)>>]
        ELSE IF faults = "get"
        THEN [calendar |-> inserted, result |-> "create_failed",
              calls |-> <<Call("insert", 0), Call("get", id)>>]
        ELSE [calendar |-> inserted, result |-> "created",
              calls |-> <<Call("insert", 0), Call("get", id)>>]

Suspended(task, pc, calls) ==
    [task EXCEPT !.pc = pc, !.outcome = "pending", !.calls = task.calls \o calls]

\* run, lines 318-342: up to the await of the extraction call
CreateEventStart(user_id, content) ==
    /\ IntentOf[content] = "CreateEvent"
    /\ conversation_history' = EntryCreated(conversation_history, user_id)
    /\ Suspends(Suspended(NewTask(user_id, content), "await_extract",
                          <<Call("llm_extract", 0)>>))
    /\ UNCHANGED <<calendar, appendLog>>

\* run, lines 344-357 and 359-361: the extraction call returned lines
CreateEventAnswered(t) ==
    /\ t \in 1..Len(tasks)
    /\ tasks[t].pc = "await_extract"
    /\ \E lines \in ExtractReplies, faults \in InsertFaults :
          LET parsed == event_info_of(lines)
              event_info == parsed.obj
              task == [tasks[t] EXCEPT !.extracted = lines]
          IN  IF parsed.raised
              THEN /\ Resumes(t, Replied(task, Reply("create_failed", <<>>, ""), <<>>))
                   /\ UNCHANGED calendar
              ELSE LET done == create_event(calendar, event_info.summary,
                                            event_info.start_time,
                                            IF Has(event_info, "location")
                                            THEN event_info.location ELSE <<>>,
                                            faults)
                   IN  /\ Resumes(t, Replied(task,
                                             Reply("event_created", event_info.summary,
                                                   done.result),
                                             done.calls))
                       /\ calendar' = done.calendar
    /\ UNCHANGED <<conversation_history, appendLog>>

\* run, lines 339-342 raise, caught at 359-361
CreateEventFailed(t) ==
    /\ t \in 1..Len(tasks)
    /\ tasks[t].pc = "await_extract"
    /\ Resumes(t, Replied(tasks[t], Reply("create_failed", <<>>, ""), <<>>))
    /\ UNCHANGED <<conversation_history, calendar, appendLog>>

(***************************************************************************)
(* GeneralChat: run lines 444-481.                                         *)
(***************************************************************************)
ChatReplies == {<<"o","k">>, <<"s","u","r","e">>}

\* weather: "ok", "raise" (an exception or an HTTP error, absorbed by
\* get_weather) or "nokey" (lines 108-109).  maps: the same for
\* get_travel_time, lines 131-155.  list: whether events().list raises.
ChatFaults == [weather : {"ok", "raise", "nokey"}, maps : {"ok", "raise", "nokey"},
               list : BOOLEAN]

HasAny(msg_lower, words) == \E word \in words : Contains(msg_lower, word)

\* run, line 453
WantsCalendar(msg_lower) ==
    HasAny(msg_lower, {<<"c","a","l","e","n","d","a","r">>, <<"s","c","h","e","d","u","l","e">>, <<"e","v","e","n","t">>, <<"m","e","e","t","i","n","g">>})

\* run, line 460
WantsTravel(msg_lower) ==
    HasAny(msg_lower, {<<"f","a","r">>, <<"d","i","s","t","a","n","c","e">>, <<"t","r","a","v","e","l"," ","t","i","m","e">>, <<"h","o","w"," ","l","o","n","g">>})

WantsCalendarOf == [content \in Messages |-> WantsCalendar(Lower(content))]

WantsTravelOf == [content \in Messages |-> WantsTravel(Lower(content))]

\* get_event_details, lines 178-200: the event shown and whether a travel
\* estimate follows its location
event_details(event, faults) ==
    [event |-> event, travel |-> Has(event, "location") /\ faults.maps = "ok"]

\* the maps calls of get_event_details, lines 186-189
details_calls(event, faults) ==
    IF Has(event, "location") /\ faults.maps # "nokey"
    THEN <<Call("maps", event.id)>> ELSE <<>>

\* run, lines 456-457: the maps calls of the digest, event by event
RECURSIVE digest_calls(_, _)
digest_calls(events, faults) ==
    IF events = <<>> THEN <<>>
    ELSE details_calls(Head(events), faults) \o digest_calls(Tail(events), faults)

\* get_next_event_travel_info, lines 159-176, given the listing
next_event_travel_info(events, faults) ==
    IF events = <<>> THEN "no_upcoming_events"
    ELSE IF ~Has(events[1], "location") THEN "no_location"
    ELSE IF faults.maps = "ok" THEN "travel" ELSE "no_travel_time"

next_event_calls(events, faults) ==
    <<Call("list", 1)>>
    \o (IF events # <<>> /\ Has(events[1], "location") /\ faults.maps # "nokey"
        THEN <<Call("maps", events[1].id)>> ELSE <<>>)

\* run, lines 445-463: whether a calendar listing raises (no handler
\* encloses lines 454 and 461)
context_raises(content, faults) ==
    faults.list /\ (WantsCalendarOf[content] \/ WantsTravelOf[content])

\* run, lines 445-463: the context block
build_context(cal, content, faults) ==
    LET digest_events == get_upcoming_events(cal, digest_window)
        next_events == get_upcoming_events(cal, 1)
    IN  [location |-> location_label,
         weather |-> faults.weather = "ok",
         calendar |-> IF WantsCalendarOf[content] THEN "present" ELSE "absent",
         digest |-> IF WantsCalendarOf[content]
                    THEN [i \in 1..Len(digest_events) |->
                             event_details(digest_events[i], faults)]
                    ELSE <<>>,
         travel |-> IF WantsTravelOf[content]
                    THEN next_event_travel_info(next_events, faults)
                    ELSE "absent"]

\* the collaborator calls of lines 447-461, up to the one that raises
context_calls(cal, content, faults) ==
    (IF faults.weather # "nokey" THEN <<Call("weather", 0)>> ELSE <<>>)
    \o (IF WantsCalendarOf[content]
        THEN <<Call("list", digest_window)>>
             \o (IF faults.list THEN <<>>
                 ELSE digest_calls(get_upcoming_events(cal, digest_window), faults))
        ELSE <<>>)
    \o (IF WantsTravelOf[content] /\ ~(faults.list /\ WantsCalendarOf[content])
        THEN IF faults.list THEN <<Call("list", 1)>>
             ELSE next_event_calls(get_upcoming_events(cal, 1), faults)
        ELSE <<>>)

\* the collaborators a turn for this message can reach: one that is not
\* called is left out of the choice
ChatFaultsOf ==
    [content \in Messages |->
        {faults \in ChatFaults :
            /\ (~WantsCalendarOf[content] /\ ~WantsTravelOf[content])
                  => (faults.maps = "nokey" /\ ~faults.list)
            /\ faults.list => faults.maps = "nokey"}]

\* build_messages leaving the history out
build_messages_without_history(history, context, content) ==
    [system |-> "SYSTEM_PROMPT", history |-> <<>>, context |-> context,
     text |-> content]

\* run, lines 466-470
build_messages(history, context, content) ==
    [system |-> "SYSTEM_PROMPT", history |-> history, context |-> context,
     text |-> content]

\* run, lines 318 and 444-475: up to the await of the chat call
ChatStart(user_id, content) ==
    /\ IntentOf[content] = "GeneralChat"
    /\ conversation_history' = EntryCreated(conversation_history, user_id)
    /\ \E faults \in ChatFaultsOf[content] :
          LET history == get_conversation_history(conversation_history, user_id)
              context == build_context(calendar, content, faults)
              calls == context_calls(calendar, content, faults)
              task == NewTask(user_id, content)
          IN  IF context_raises(content, faults)
              THEN Ends(Raised(task, calls))
              ELSE Suspends(Suspended([task EXCEPT !.prompt =
                                          build_messages(history, context, content)],
                                      "await_chat", calls \o <<Call("llm_chat", 0)>>))
    /\ UNCHANGED <<calendar, appendLog>>

\* run, lines 477-481: the chat call returned reply
ChatAnswered(t) ==
    /\ t \in 1..Len(tasks)
    /\ tasks[t].pc = "await_chat"
    /\ \E reply \in ChatReplies :
          /\ conversation_history' =
                exchange_appended(conversation_history, tasks[t].user,
                                  tasks[t].content, reply)
          /\ appendLog' = [appendLog EXCEPT ![tasks[t].user] =
                              @ \o <<Turn("user", tasks[t].content),
                                     Turn("assistant", reply)>>]
          /\ Resumes(t, Replied(tasks[t], Reply("chat_reply", reply, ""), <<>>))
    /\ UNCHANGED calendar

\* run, lines 472-475 raise: no handler encloses the chat call
ChatFailed(t) ==
    /\ t \in 1..Len(tasks)
    /\ tasks[t].pc = "await_chat"
    /\ Resumes(t, Raised(tasks[t], <<>>))
    /\ UNCHANGED <<conversation_history, calendar, appendLog>>

(***************************************************************************)
(* Spec: any user may send any message while turns of any user are         *)
(* suspended at their LLM call.                                            *)
(***************************************************************************)
LocationQueries == MessagesOf("LocationQuery")

Resets == MessagesOf("Reset")

CreateEvents == MessagesOf("CreateEvent")

Postpones == MessagesOf("Postpone")

UpdateLocations == MessagesOf("UpdateLocation")

UpdateAttendeesCmds == MessagesOf("UpdateAttendees")

GeneralChats == MessagesOf("GeneralChat")

\* fewer than max messages were received
Open(max) == received < max

Resume(t) ==
    \/ CreateEventAnswered(t)
    \/ CreateEventFailed(t)
    \/ ChatAnswered(t)
    \/ ChatFailed(t)

Next ==
    \/ \E user_id \in Users, content \in LocationQueries :
          Open(MaxTurns) /\ LocationQuery(user_id, content)
    \/ \E user_id \in Users, content \in Resets :
          Open(MaxTurns) /\ ResetHistory(user_id, content)
    \/ \E user_id \in Users, content \in CreateEvents :
          Open(MaxTurns) /\ CreateEventStart(user_id, content)
    \/ \E user_id \in Users, content \in Postpones :
          Open(MaxTurns) /\ Postpone(user_id, content)
    \/ \E user_id \in Users, content \in UpdateLocations :
          Open(MaxTurns) /\ UpdateLocation(user_id, content)
    \/ \E user_id \in Users, content \in UpdateAttendeesCmds :
          Open(MaxTurns) /\ UpdateAttendees(user_id, content)
    \/ \E user_id \in Users, content \in GeneralChats :
          Open(MaxTurns) /\ ChatStart(user_id, content)
    \/ \E t \in 1..MaxTurns : Resume(t)

Spec == Init /\ [][Next]_vars

(***************************************************************************)
(* SpecChat: the users send free-form messages and resets only, so that    *)
(* several turns of the conversation are in flight together.               *)
(***************************************************************************)
\* number of messages received in a run of SpecChat
MaxChatTurns == 2

ChatSpecMessages == {MsgHi, MsgCalendar}

InitChat == Init /\ calendar = CalendarSmall

NextChat ==
    \/ \E user_id \in Users, content \in Resets :
          Open(MaxChatTurns) /\ ResetHistory(user_id, content)
    \/ \E user_id \in Users, content \in ChatSpecMessages :
          Open(MaxChatTurns) /\ ChatStart(user_id, content)
    \/ \E t \in 1..MaxChatTurns : ChatAnswered(t)
    \/ \E t \in 1..MaxChatTurns : ChatFailed(t)

SpecChat == InitChat /\ [][NextChat]_vars

(***************************************************************************)
(* SpecMemory: one short message is sent often enough for the memory to    *)
(* reach its limit and evict.                                              *)
(***************************************************************************)
\* number of messages received in a run of SpecMemory
MaxMemoryTurns == 6

\* number of turns suspended together in a run of SpecMemory
MaxInFlight == 1

NextMemory ==
    \/ \E user_id \in Users, content \in Resets :
          Open(MaxMemoryTurns) /\ ResetHistory(user_id, content)
    \/ \E user_id \in Users :
          Open(MaxMemoryTurns) /\ Len(tasks) < MaxInFlight /\ ChatStart(user_id, MsgHi)
    \/ \E t \in 1..MaxInFlight : ChatAnswered(t)
    \/ \E t \in 1..MaxInFlight : ChatFailed(t)

SpecMemory == InitChat /\ [][NextMemory]_vars

(***************************************************************************)
(* Properties.                                                             *)
(***************************************************************************)
\* the history get returns for a user: empty when the user has no entry
History(user_id) ==
    IF user_id \in DOMAIN conversation_history THEN conversation_history[user_id]
    ELSE <<>>

HistoryAfter(user_id) ==
    IF user_id \in DOMAIN conversation_history' THEN conversation_history'[user_id]
    ELSE <<>>

\* a message was received in this step
Received == received' = received + 1

\* a turn ended in this step
TurnEnded == finished' # NoTask /\ (Received \/ Len(tasks') < Len(tasks))

CallOps(task) == {task.calls[i].op : i \in 1..Len(task.calls)}

\* C1: run never raises to its caller: every turn ends by returning a reply
\* text, whatever the intent and whichever collaborator fails.
C1_RunNeverRaises == finished.outcome # "raised"

\* the rule of the classification order that a message matches first
C2_FirstRule(content) ==
    LET m == Lower(content)
        matches ==
            << m \in location_queries,
               m \in {<<"f","o","r","g","e","t">>, <<"r","e","s","e","t">>},
               \E p \in {<<"s","c","h","e","d","u","l","e"," ","a">>, <<"c","r","e","a","t","e"," ","e","v","e","n","t">>, <<"a","d","d"," ","m","e","e","t","i","n","g">>,
                         <<"n","e","w"," ","a","p","p","o","i","n","t","m","e","n","t">>} : Contains(m, p),
               Contains(m, <<"p","o","s","t","p","o","n","e">>),
               Contains(m, <<"u","p","d","a","t","e"," ","l","o","c","a","t","i","o","n">>) \/ Contains(m, <<"c","h","a","n","g","e"," ","l","o","c","a","t","i","o","n">>),
               Contains(m, <<"a","d","d"," ","a","t","t","e","n","d","e","e">>) \/ Contains(m, <<"i","n","v","i","t","e">>),
               TRUE >>
    IN  CHOOSE i \in 1..7 : matches[i] /\ \A j \in 1..(i - 1) : ~matches[j]

\* the action paths a turn shows to have taken, by what it did and replied
C2_PathsTaken(task) ==
    {i \in 1..7 :
        \/ i = 1 /\ task.reply.kind \in {"location_details", "location_label"}
        \/ i = 2 /\ task.reply.kind = "reset_confirmation"
        \/ i = 3 /\ (\/ task.pc = "await_extract"
                     \/ "llm_extract" \in CallOps(task)
                     \/ task.reply.kind \in {"event_created", "create_failed"})
        \/ i = 4 /\ (\/ task.hours > 0
                     \/ task.reply.kind \in {"postpone_usage", "postpone_failed",
                                             "postponed"})
        \/ i = 5 /\ (\/ task.new_location # <<>>
                     \/ task.reply.kind \in {"update_location_usage_format",
                                             "update_location_usage_connector",
                                             "update_location_usage_both",
                                             "update_location_failed",
                                             "location_updated"})
        \/ i = 6 /\ (\/ task.attendees # <<>>
                     \/ task.reply.kind \in {"update_attendees_usage",
                                             "update_attendees_failed",
                                             "attendees_updated"})
        \/ i = 7 /\ (\/ task.pc = "await_chat"
                     \/ "llm_chat" \in CallOps(task)
                     \/ task.reply.kind = "chat_reply"
                     \/ task.outcome = "raised")}

\* C2: every message is handled by exactly one of the seven action paths,
\* the one of the first rule it matches in the order location phrase, reset,
\* creation phrase, postpone, update/change location, add attendee/invite,
\* general chat.
C2_FirstMatchWins ==
    /\ finished # NoTask => C2_PathsTaken(finished) = {C2_FirstRule(finished.content)}
    /\ \A t \in 1..Len(tasks) :
          C2_PathsTaken(tasks[t]) = {C2_FirstRule(tasks[t].content)}

\* a message with a creation phrase and 'postpone' took the creation path
C2_Witness ==
    /\ finished.content = MsgSchedulePostpone
    /\ finished.reply.kind = "event_created"

\* the last n elements of seq, in their order
LastN(seq, n) ==
    IF Len(seq) <= n THEN seq ELSE SubSeq(seq, Len(seq) - n + 1, Len(seq))

\* the turn that was received in this step: suspended at its LLM call, or
\* ended within the step
ReceivedTask ==
    IF Len(tasks') > Len(tasks) THEN tasks'[Len(tasks')] ELSE finished'

\* the user whose turn ran in this step
ActingUser == ReceivedTask.user

\* C3: a user's history never holds more than memory_limit turns, and after
\* any number of appends since it was empty it is exactly the last
\* memory_limit appended turns, in the order they were appended.
C3_LastTurnsKept ==
    \A u \in Users :
        /\ Len(History(u)) <= memory_limit
        /\ History(u) = LastN(appendLog[u], memory_limit)

\* more than memory_limit turns were appended for a user: the oldest are gone
C3_Witness ==
    \E u \in Users :
        /\ Len(appendLog[u]) > memory_limit
        /\ Len(History(u)) = memory_limit
        /\ History(u)[1] = appendLog[u][Len(appendLog[u]) - memory_limit + 1]

\* the history is made of whole exchanges: no user turn without its reply
C4_WholeExchanges(history) ==
    /\ Len(history) % 2 = 0
    /\ \A i \in 1..Len(history) :
          history[i].role = (IF i % 2 = 1 THEN "user" ELSE "assistant")

\* the history of the user as it was when the turn that ended in this step
\* was received: read at line 318 and kept in the prompt of a turn that
\* was suspended
C4_HistoryBeforeTurn ==
    IF Received THEN History(finished'.user) ELSE finished'.prompt.history

\* C4: the memory of a user changes only when a chat call of that user has
\* returned, by the user turn and the assistant turn of the exchange
\* together (or when the user resets), so that every history is made of
\* whole exchanges; and when a GeneralChat turn ends without a reply, the
\* user's history is what it was before the turn.
C4_ExchangeAtomic ==
    [][/\ \A u \in Users :
             /\ C4_WholeExchanges(HistoryAfter(u))
             /\ HistoryAfter(u) # History(u) =>
                   /\ finished'.user = u
                   /\ \/ /\ finished'.reply.kind = "chat_reply"
                         /\ "llm_chat" \in CallOps(finished')
                         /\ HistoryAfter(u) =
                               LastN(History(u) \o
                                       << Turn("user", finished'.content),
                                          Turn("assistant", finished'.reply.arg) >>,
                                     memory_limit)
                      \/ /\ finished'.reply.kind = "reset_confirmation"
                         /\ HistoryAfter(u) = <<>>
       /\ (TurnEnded /\ finished'.intent = "GeneralChat"
                     /\ finished'.outcome = "raised") =>
             HistoryAfter(finished'.user) = C4_HistoryBeforeTurn
      ]_vars

\* C5: two turns of one user are never in flight together between the read
\* of the history and the append of the exchange.
C5_OneTurnPerUser ==
    \A i, j \in 1..Len(tasks) :
        (i # j /\ tasks[i].pc = "await_chat" /\ tasks[j].pc = "await_chat")
            => tasks[i].user # tasks[j].user

\* C6: a message that is 'forget' or 'reset' in any case ends its turn with
\* the confirmation, the sender's history empty, every other user's history
\* as it was, and no call to a collaborator.
C6_ResetClearsCallerOnly ==
    [][(Received /\ Lower(ReceivedTask.content) \in {<<"f","o","r","g","e","t">>, <<"r","e","s","e","t">>}) =>
          /\ finished' = ReceivedTask
          /\ finished'.outcome = "replied"
          /\ finished'.reply.kind = "reset_confirmation"
          /\ finished'.calls = <<>>
          /\ HistoryAfter(finished'.user) = <<>>
          /\ \A u \in Users \ {finished'.user} : HistoryAfter(u) = History(u)
          /\ calendar' = calendar
      ]_vars

\* a user with a non-empty history reset it (a turn of theirs, suspended
\* since, had read it) while another user's history is kept
C6_Witness ==
    /\ finished.reply.kind = "reset_confirmation"
    /\ History(finished.user) = <<>>
    /\ \E t \in 1..Len(tasks) :
          tasks[t].user = finished.user /\ tasks[t].prompt.history # <<>>
    /\ \E u \in Users \ {finished.user} : History(u) # <<>>

\* C7: a step of a turn of user A leaves the entry of every other user as it
\* was, and the prompt built for A holds exactly the turns kept for A.
C7_NoCrossUser ==
    [][/\ \A u \in Users \ {ActingUser} :
             /\ u \in DOMAIN conversation_history' <=> u \in DOMAIN conversation_history
             /\ HistoryAfter(u) = History(u)
       /\ Len(tasks') > Len(tasks) =>
             ReceivedTask.prompt.history = LastN(appendLog[ActingUser], memory_limit)
      ]_vars

\* a prompt was built for a user without history while another user has one
C7_Witness ==
    \E t \in 1..Len(tasks) :
        /\ tasks[t].pc = "await_chat"
        /\ tasks[t].prompt.history = <<>>
        /\ \E u \in Users \ {tasks[t].user} : History(u) # <<>>

\* the turn that ended in this step is a command on a named event whose
\* listing was obtained
C8_Resolved ==
    /\ TurnEnded
    /\ finished'.intent \in {"Postpone", "UpdateLocation", "UpdateAttendees"}
    /\ finished'.listing.status = "ok"

\* the event of the calendar with this id
C8_EventOf(event_id) ==
    calendar[CHOOSE i \in 1..Len(calendar) : calendar[i].id = event_id]

\* the events of the calendar that have not ended
C8_Upcoming == {i \in 1..Len(calendar) : EndOf(calendar[i]) > NowHour}

\* ids lists the soonest upcoming events, at most search_window of them,
\* in the order of their start
C8_SoonestListed(ids) ==
    /\ Len(ids) = (IF Cardinality(C8_Upcoming) < search_window
                   THEN Cardinality(C8_Upcoming) ELSE search_window)
    /\ \A i \in 1..Len(ids) : \E k \in C8_Upcoming : calendar[k].id = ids[i]
    /\ \A i, j \in 1..Len(ids) :
          i < j => /\ ids[i] # ids[j]
                   /\ StartOf(C8_EventOf(ids[i])) <= StartOf(C8_EventOf(ids[j]))
    /\ \A k \in C8_Upcoming :
          (\A i \in 1..Len(ids) : ids[i] # calendar[k].id) =>
              \A i \in 1..Len(ids) : StartOf(C8_EventOf(ids[i])) <= StartOf(calendar[k])

\* the listed positions whose summary is the name, whatever the case
C8_Matches(task) ==
    {i \in 1..Len(task.listing.ids) :
        Lower(C8_EventOf(task.listing.ids[i]).summary) = Lower(task.event_name)}

\* C8: a command on a named event lists the soonest upcoming events, at most
\* 10 of them in start order, and acts on the first listed event whose
\* summary equals the name case-insensitively; a name that equals no listed
\* summary (a substring or a superstring of one included) resolves to no
\* event.
C8_ExactFirstMatch ==
    [][C8_Resolved =>
          LET task == finished'
              hits == C8_Matches(task)
          IN  /\ C8_SoonestListed(task.listing.ids)
              /\ hits = {} => task.target = 0 /\ task.reply.kind = "could_not_find"
              /\ hits # {} =>
                    /\ \E i \in hits :
                          /\ \A j \in hits : i <= j
                          /\ task.target = task.listing.ids[i]
                    /\ \A c \in 1..Len(task.calls) :
                          task.calls[c].op \in {"get", "update"} =>
                              task.calls[c].arg = task.target
      ]_vars

\* 'postpone Demo 2 hours' moved the event 'Demo' that starts first, not the
\* event 'DEMO' that starts later and is stored before it
C8_Witness ==
    /\ finished.intent = "Postpone"
    /\ finished.reply.kind = "postponed"
    /\ finished.reply.detail = "updated"
    /\ finished.target = 3
    /\ \E i \in 1..Len(calendar) : calendar[i].id = 3 /\ StartOf(calendar[i]) = 32

\* C9: when no listed event matches the name of a Postpone, UpdateLocation
\* or UpdateAttendees command, the reply is the could-not-find message with
\* that name, no get or update call is issued and the calendar is unchanged.
C9_NotFoundLeavesCalendar ==
    [][(C8_Resolved /\ C8_Matches(finished') = {}) =>
          /\ finished'.outcome = "replied"
          /\ finished'.reply = Reply("could_not_find", finished'.event_name, "")
          /\ \A c \in 1..Len(finished'.calls) :
                finished'.calls[c].op \notin {"get", "update", "insert"}
          /\ calendar' = calendar
      ]_vars

\* an attendee command named an event that is not among the listed ones
C9_Witness ==
    /\ finished.intent = "UpdateAttendees"
    /\ finished.reply.kind = "could_not_find"
    /\ finished.listing.status = "ok"
    /\ finished.listing.ids # <<>>
    /\ finished.calls = <<Call("list", search_window)>>

\* C10: a GeneralChat turn whose context collaborator fails still issues
\* the chat call, with the location label in its prompt.
C10_ContextDegrades ==
    /\ finished.intent = "GeneralChat" => "llm_chat" \in CallOps(finished)
    /\ \A t \in 1..Len(tasks) :
          tasks[t].pc = "await_chat" =>
              tasks[t].prompt.context.location = location_label

(***************************************************************************)
(* SpecModify: modify_event called on its own, with changes that name some *)
(* top-level fields and some sub-keys of start and end.                    *)
(***************************************************************************)
\* number of calls of modify_event in a run of SpecModify
MaxModifyCalls == 2

\* the changes argument of modify_event; the values of start and end are
\* dicts, the other values are not
ModifyChanges ==
    { [location |-> <<"l","a","b">>],
      [start |-> [dateTime |-> 33]],
      [end |-> [timeZone |-> "utc"]],
      [start |-> TimedAt(34), end |-> TimedAt(35)],
      [attendees |-> <<[email |-> <<"a","@","x">>]>>, summary |-> <<"r","e","v","i","e","w">>] }

ModifyFaults == {"none", "get", "update"}

\* the ids an event of the calendars can have
EventIds == 1..11

\* what a call of modify_event was given and what it returned
Modified(event_id, changes, done) ==
    [event_id |-> event_id, changes |-> changes, result |-> done.result,
     calls |-> done.calls]

\* modify_event, lines 509-545, for an event the calendar holds
ModifyEvent(event_id, changes, faults) ==
    /\ \E i \in 1..Len(calendar) : calendar[i].id = event_id
    /\ LET done == modify_event(calendar, event_id, changes, faults)
       IN  /\ calendar' = done.calendar
           /\ finished' = Modified(event_id, changes, done)
    /\ received' = received + 1
    /\ UNCHANGED <<conversation_history, tasks, appendLog, location_state>>

NextModify ==
    \E event_id \in EventIds, changes \in ModifyChanges, faults \in ModifyFaults :
        Open(MaxModifyCalls) /\ ModifyEvent(event_id, changes, faults)

SpecModify == Init /\ [][NextModify]_vars

(***************************************************************************)
(* SpecLive: the collaborators may also never answer.  requests.get in     *)
(* get_weather (line 116) is a blocking call without a timeout, made on    *)
(* the event loop's thread: while it does not return, the turn stays       *)
(* inside run and the loop runs no other coroutine.  complete_async at     *)
(* lines 472-475 is awaited without a timeout: while it does not return,   *)
(* the turn stays suspended and the loop runs the other turns.  In         *)
(* SpecLive tasks also holds these turns: pc is "blocked_weather" for a    *)
(* turn inside the weather call that never returns and "unanswered_chat"   *)
(* for a turn whose chat call will never return.  The geolocation call     *)
(* carries timeout=5 (line 288): its timeout is the answer "fail" of       *)
(* LocationQuery.                                                          *)
(***************************************************************************)
\* number of messages received in a run of SpecLive
MaxLiveTurns == 2

\* the event loop's thread is not held by a blocking call
Unblocked == \A t \in 1..Len(tasks) : tasks[t].pc # "blocked_weather"

\* run, lines 318 and 447: the weather service never answers the request of
\* get_weather, line 116
ChatStartBlocked(user_id, content) ==
    /\ IntentOf[content] = "GeneralChat"
    /\ conversation_history' = EntryCreated(conversation_history, user_id)
    /\ Suspends(Suspended(NewTask(user_id, content), "blocked_weather",
                          <<Call("weather", 0)>>))
    /\ UNCHANGED <<calendar, appendLog>>

\* run, lines 472-475: the LLM service will never answer the chat call
NeverAnswers(t) ==
    /\ t \in 1..Len(tasks)
    /\ tasks[t].pc = "await_chat"
    /\ tasks' = [tasks EXCEPT ![t].pc = "unanswered_chat"]
    /\ finished' = NoTask
    /\ UNCHANGED <<conversation_history, calendar, received, appendLog, location_state>>

\* the free-form message of SpecLive
LiveMessages == {MsgHi}

NextLive ==
    \/ \E user_id \in Users, content \in LocationQueries :
          Open(MaxLiveTurns) /\ Unblocked /\ LocationQuery(user_id, content)
    \/ \E user_id \in Users, content \in LiveMessages :
          Open(MaxLiveTurns) /\ Unblocked /\ ChatStart(user_id, content)
    \/ \E user_id \in Users, content \in LiveMessages :
          Open(MaxLiveTurns) /\ Unblocked /\ ChatStartBlocked(user_id, content)
    \/ \E t \in 1..MaxLiveTurns : Unblocked /\ ChatAnswered(t)
    \/ \E t \in 1..MaxLiveTurns : Unblocked /\ ChatFailed(t)
    \/ \E t \in 1..MaxLiveTurns : Unblocked /\ NeverAnswers(t)

\* the event loop runs a coroutine that can run, and a collaborator that
\* was called answers, fails or never answers
SpecLive == InitChat /\ [][NextLive]_vars /\ WF_vars(NextLive)

\* the attendee emails of the event with this id, in their order
C11_EmailsOf(cal, event_id) ==
    LET event == cal[CHOOSE i \in 1..Len(cal) : cal[i].id = event_id]
    IN  IF Has(event, "attendees")
        THEN [i \in 1..Len(event.attendees) |-> event.attendees[i].email]
        ELSE <<>>

\* an attendee update was applied to the calendar in this step
C11_Merged ==
    /\ TurnEnded
    /\ finished'.reply.kind = "attendees_updated"
    /\ finished'.reply.detail = "updated"

\* C11: after an attendee update the event holds each email at most once,
\* and an update that gives only emails the event already holds leaves its
\* attendee list as it was.
C11_AttendeeMergeIdempotent ==
    [][C11_Merged =>
          LET before == C11_EmailsOf(calendar, finished'.target)
              after == C11_EmailsOf(calendar', finished'.target)
              given == {finished'.attendees[i] : i \in 1..Len(finished'.attendees)}
              held == {before[i] : i \in 1..Len(before)}
          IN  /\ \A i, j \in 1..Len(after) : i # j => after[i] # after[j]
              /\ given \subseteq held => after = before
      ]_vars

\* the event of the calendar cal with this id
C12_EventOf(cal, event_id) ==
    cal[CHOOSE i \in 1..Len(cal) : cal[i].id = event_id]

\* value is the dict old_value (absent: the empty dict) with the sub-keys of
\* change overwritten and its other sub-keys kept
C12_KeywiseMerged(value, has_old, old_value, change) ==
    LET old_keys == IF has_old THEN DOMAIN old_value ELSE {}
    IN  /\ DOMAIN value = old_keys \cup DOMAIN change
        /\ \A sub \in DOMAIN change : value[sub] = change[sub]
        /\ \A sub \in old_keys \ DOMAIN change : value[sub] = old_value[sub]

\* C12: the event modify_event sends to update is the event it read with the
\* changed keys overwritten: a top-level field the changes do not name is
\* kept, a nested start or end keeps the sub-keys the change does not name,
\* and no other event changes; a failed call changes nothing.
C12_MergeUpdate ==
    [][received' = received + 1 =>
          LET call == finished'
              old == C12_EventOf(calendar, call.event_id)
              new == C12_EventOf(calendar', call.event_id)
          IN  /\ call.result # "updated" => calendar' = calendar
              /\ call.result = "updated" =>
                    /\ DOMAIN new = DOMAIN old \cup DOMAIN call.changes
                    /\ \A key \in DOMAIN old \ DOMAIN call.changes : new[key] = old[key]
                    /\ \A key \in DOMAIN call.changes \ {"start", "end"} :
                          new[key] = call.changes[key]
                    /\ \A key \in DOMAIN call.changes \cap {"start", "end"} :
                          C12_KeywiseMerged(new[key], Has(old, key),
                                            IF Has(old, key) THEN old[key] ELSE new[key],
                                            call.changes[key])
                    /\ Len(calendar') = Len(calendar)
                    /\ \A i \in 1..Len(calendar) :
                          calendar[i].id # call.event_id => calendar'[i] = calendar[i]
      ]_vars

\* a change of the start's dateTime alone was applied to a timed event: the
\* start keeps its timeZone, the event its summary and its end
C12_Witness ==
    /\ received > 0
    /\ finished.result = "updated"
    /\ finished.changes = [start |-> [dateTime |-> 33]]
    /\ LET event == C12_EventOf(calendar, finished.event_id)
       IN  /\ event.start = [dateTime |-> 33, timeZone |-> timezone_name]
           /\ Has(event, "summary")
           /\ Has(event.end, "dateTime")

\* a CreateEvent turn ended with the event inserted and read back
C13_Created ==
    /\ finished.intent = "CreateEvent"
    /\ finished.reply.kind = "event_created"
    /\ finished.reply.detail = "created"

\* C13: after a CreateEvent turn has succeeded with summary S and a start in
\* the future, the lookup by name of S over the search window of 10 finds
\* an event whose summary is S.
C13_CreatedIsFound ==
    (C13_Created /\ StartOf(calendar[Len(calendar)]) > NowHour) =>
        LET events == get_upcoming_events(calendar, search_window)
            found == find_target(events, finished.reply.arg)
        IN  /\ found # 0
            /\ Lower(events[found].summary) = Lower(finished.reply.arg)

\* the positions of the tokens 'postpone' that have a token after them
C14_NamePositions(words) ==
    {i \in 1..(Len(words) - 1) : Lower(words[i]) = <<"p","o","s","t","p","o","n","e">>}

\* the positions of the tokens 'hour' and 'hours' that follow a number
C14_HourPositions(words) ==
    {i \in 2..Len(words) :
        Lower(words[i]) \in {<<"h","o","u","r">>, <<"h","o","u","r","s">>} /\ IsDigit(words[i - 1])}

\* C14: a Postpone turn takes as event name the token of the message that
\* follows 'postpone' and as hours the number before 'hour' or 'hours', 1
\* when there is none: 'postpone Demo 2 hours' gives the name Demo and 2
\* hours, 'postpone Demo' the name Demo and 1 hour.
C14_PostponeParsed ==
    finished.intent = "Postpone" =>
        LET words == SplitWs(finished.content)
            names == C14_NamePositions(words)
            counts == C14_HourPositions(words)
        IN  /\ names # {} => \E i \in names : finished.event_name = words[i + 1]
            /\ counts # {} => \E i \in counts : finished.hours = ToInt(words[i - 1])
            /\ counts = {} => finished.hours = 1
            /\ finished.content = MsgPostponeDemo2 =>
                  finished.event_name = <<"D","e","m","o">> /\ finished.hours = 2
            /\ finished.content = MsgPostponeDemo =>
                  finished.event_name = <<"D","e","m","o">> /\ finished.hours = 1

\* the separator phrase of a location command, or <<>> when it has none
C15_Phrase(content) ==
    IF Contains(Lower(content), <<"u","p","d","a","t","e"," ","l","o","c","a","t","i","o","n"," ","o","f">>) THEN <<"u","p","d","a","t","e"," ","l","o","c","a","t","i","o","n"," ","o","f">>
    ELSE IF Contains(Lower(content), <<"c","h","a","n","g","e"," ","l","o","c","a","t","i","o","n"," ","o","f">>) THEN <<"c","h","a","n","g","e"," ","l","o","c","a","t","i","o","n"," ","o","f">>
    ELSE <<>>

\* the text of the message after the separator phrase
C15_Remainder(content) ==
    LET phrase == C15_Phrase(content)
        i == Find(Lower(content), phrase)
    IN  SubSeq(content, i + Len(phrase), Len(content))

\* the connector the remainder is split at, or <<>> when it has none
C15_Connector(remainder) ==
    IF Contains(Lower(remainder), <<" ","t","o"," ">>) THEN <<" ","t","o"," ">>
    ELSE IF Contains(Lower(remainder), <<" ","a","t"," ">>) THEN <<" ","a","t"," ">>
    ELSE <<>>

\* C15: a location command with a separator phrase and a connector is split
\* at the first connector of the remainder into the event name and the new
\* location, both trimmed, and the update is attempted with this pair, also
\* when the connector occurs again: 'update location of standup to Room 5'
\* gives the name standup and the location Room 5.
C15_LocationParsed ==
    (/\ finished.intent = "UpdateLocation"
     /\ C15_Phrase(finished.content) # <<>>
     /\ C15_Connector(C15_Remainder(finished.content)) # <<>>) =>
        LET remainder == C15_Remainder(finished.content)
            connector == C15_Connector(remainder)
            j == Find(Lower(remainder), connector)
            name == Strip(SubSeq(remainder, 1, j - 1))
            place == Strip(SubSeq(remainder, j + Len(connector), Len(remainder)))
        IN  (name # <<>> /\ place # <<>>) =>
                /\ finished.event_name = name
                /\ finished.new_location = place
                /\ "list" \in CallOps(finished)

\* the positions of the tokens 'to' and 'for' at an index greater than 1,
\* the first token having index 0
C16_Connectors(words) ==
    {i \in 3..Len(words) : words[i] \in {<<"t","o">>, <<"f","o","r">>}}

\* C16: an attendee command is split at its first token 'to' or 'for' of
\* index greater than 1 (such a token at index 1 is passed over): the event
\* name is the tokens from index 2 to the connector, the emails are the
\* later tokens that contain '@', and the update is attempted with them; the
\* usage hint is given only when there is no such connector or no such
\* email.
C16_AttendeesParsed ==
    finished.intent = "UpdateAttendees" =>
        LET words == SplitWs(Lower(finished.content))
            hits == C16_Connectors(words)
            first == CHOOSE i \in hits : \A j \in hits : i <= j
            emails == IF hits = {} THEN <<>>
                      ELSE EmailTokens(SubSeq(words, first + 1, Len(words)))
        IN  IF hits = {} \/ emails = <<>>
            THEN finished.reply.kind = "update_attendees_usage"
            ELSE /\ finished.event_name = JoinWs(SubSeq(words, 3, first - 1))
                 /\ finished.attendees = emails
                 /\ "list" \in CallOps(finished)

\* the number of calls of this kind a turn has issued
C17_Count(task, op) == Cardinality({i \in 1..Len(task.calls) : task.calls[i].op = op})

\* the text without its code fence is not one JSON object that has a summary
\* and a start_time
C17_Malformed(lines) ==
    LET body == {i \in 1..Len(lines) : lines[i].kind # "fence"}
    IN  ~ /\ Cardinality(body) = 1
          /\ \A i \in body :
                /\ lines[i].kind = "json"
                /\ Has(lines[i].obj, "summary")
                /\ Has(lines[i].obj, "start_time")

\* C17: a CreateEvent turn issues one extraction call and no other LLM
\* call; when the text returned is not JSON or lacks summary or start_time,
\* the turn replies with the failure message and issues no calendar call.
C17_MalformedExtraction ==
    /\ \A t \in 1..Len(tasks) :
          tasks[t].intent = "CreateEvent" =>
              C17_Count(tasks[t], "llm_extract") = 1 /\ Len(tasks[t].calls) = 1
    /\ finished.intent = "CreateEvent" =>
          /\ C17_Count(finished, "llm_extract") = 1
          /\ C17_Count(finished, "llm_chat") = 0
          /\ C17_Malformed(finished.extracted) =>
                /\ finished.outcome = "replied"
                /\ finished.reply.kind = "create_failed"
                /\ Len(finished.calls) = 1

\* the extraction returned a JSON object without start_time and the turn
\* replied with the failure message after its one call
C17_Witness ==
    /\ finished.intent = "CreateEvent"
    /\ finished.extracted = <<JsonLine([summary |-> <<"d","e","m","o">>])>>
    /\ finished.reply.kind = "create_failed"
    /\ finished.calls = <<Call("llm_extract", 0)>>

\* the heuristics have nothing to extract the parameters of the command from
C18_NotExtractable(task) ==
    LET words == SplitWs(Lower(task.content))
        hits == C16_Connectors(words)
        first == CHOOSE i \in hits : \A j \in hits : i <= j
    IN  \/ /\ task.intent = "Postpone"
           /\ C14_NamePositions(SplitWs(task.content)) = {}
        \/ /\ task.intent = "UpdateLocation"
           /\ \/ C15_Phrase(task.content) = <<>>
              \/ C15_Connector(C15_Remainder(task.content)) = <<>>
        \/ /\ task.intent = "UpdateAttendees"
           /\ \/ hits = {}
              \/ EmailTokens(SubSeq(words, first + 1, Len(words))) = <<>>

\* C18: a Postpone, UpdateLocation or UpdateAttendees command whose
\* parameters the heuristics cannot extract is answered with a usage hint,
\* and no calendar call is issued.
C18_UsageHint ==
    C18_NotExtractable(finished) =>
        /\ finished.outcome = "replied"
        /\ finished.reply.kind \in {"postpone_usage", "update_location_usage_format",
                                    "update_location_usage_connector",
                                    "update_attendees_usage"}
        /\ finished.calls = <<>>

\* 'postpone' alone was answered with the usage hint
C18_Witness ==
    /\ finished.content = MsgPostponeOnly
    /\ finished.reply.kind = "postpone_usage"
    /\ finished.calls = <<>>

\* C19: a GeneralChat turn builds its one chat call from the system prompt,
\* the user's history as read, and the context with the new message; when
\* the call has returned, the user's history ends with the user turn that
\* holds the message as sent and the assistant turn that holds the reply,
\* and the text returned is that reply.
C19_ChatExchange ==
    [][/\ (Len(tasks') > Len(tasks) /\ ReceivedTask.intent = "GeneralChat") =>
             /\ ReceivedTask.prompt.system = "SYSTEM_PROMPT"
             /\ ReceivedTask.prompt.history = History(ReceivedTask.user)
             /\ Len(ReceivedTask.prompt.history) <= memory_limit
             /\ ReceivedTask.prompt.context.location = location_label
             /\ ReceivedTask.prompt.text = ReceivedTask.content
             /\ C17_Count(ReceivedTask, "llm_chat") = 1
       /\ (TurnEnded /\ finished'.reply.kind = "chat_reply") =>
             LET history == HistoryAfter(finished'.user)
                 n == Len(history)
             IN  /\ C17_Count(finished', "llm_chat") = 1
                 /\ C17_Count(finished', "llm_extract") = 0
                 /\ finished'.outcome = "replied"
                 /\ finished'.reply.arg \in ChatReplies
                 /\ n >= 2
                 /\ history[n - 1] = Turn("user", finished'.content)
                 /\ history[n] = Turn("assistant", finished'.reply.arg)
                 /\ SubSeq(history, 1, n - 2) =
                       LastN(History(finished'.user), memory_limit - 2)
      ]_vars

\* the second exchange of a user: its prompt held the first exchange and the
\* history now holds both
C19_Witness ==
    /\ finished.reply.kind = "chat_reply"
    /\ Len(finished.prompt.history) = 2
    /\ Len(History(finished.user)) = 4
    /\ History(finished.user)[3] = Turn("user", finished.content)

\* C20: every turn that is under way eventually ends, also when a
\* collaborator never answers: no turn stays inside run or suspended
\* forever.
C20_EveryTurnEnds == (tasks # <<>>) ~> (tasks = <<>>)

(***************************************************************************)
(* SpecLocation: the constructor's refresh and later refreshes of the      *)
(* location state, with every answer the geolocation service can give.     *)
(***************************************************************************)
MaxRefreshes == 2

\* what the last refresh was given
Refreshed(answer, before) == [answer |-> answer, before |-> before]

InitLocation ==
    /\ conversation_history = [u \in {} |-> <<>>]
    /\ calendar = CalendarSmall
    /\ tasks = <<>>
    /\ received = 0
    /\ appendLog = [u \in Users |-> <<>>]
    /\ \E start \in StartLocations, answer \in GeoAnswers :
          /\ location_state = Constructed(start, answer)
          /\ finished = Refreshed(answer, [location |-> start])

RefreshLocation(answer) ==
    /\ location_state' = update_location_and_timezone(location_state, answer)
    /\ finished' = Refreshed(answer, location_state)
    /\ received' = received + 1
    /\ UNCHANGED <<conversation_history, calendar, tasks, appendLog>>

NextLocation ==
    \E answer \in GeoAnswers : Open(MaxRefreshes) /\ RefreshLocation(answer)

SpecLocation == InitLocation /\ [][NextLocation]_vars

(***************************************************************************)
(* SpecCommands: free-form messages and commands of every kind, mixed,     *)
(* so that commands meet a conversation memory that holds exchanges.       *)
(***************************************************************************)
\* number of messages received in a run of SpecCommands
MaxCommandTurns == 3

\* one command per kind: the postponement ends with its usage hint, the
\* others reach their operation, which succeeds or fails
CommandSpecMessages ==
    {MsgWhere, MsgSchedule, MsgPostponeOnly, MsgChangeLocAt, MsgAddAtt}

NextCommands ==
    \/ \E user_id \in Users, content \in CommandSpecMessages \cap LocationQueries :
          Open(MaxCommandTurns) /\ LocationQuery(user_id, content)
    \/ \E user_id \in Users, content \in CommandSpecMessages \cap CreateEvents :
          /\ Open(MaxCommandTurns)
          /\ Len(tasks) < MaxInFlight
          /\ CreateEventStart(user_id, content)
    \/ \E user_id \in Users, content \in CommandSpecMessages \cap Postpones :
          Open(MaxCommandTurns) /\ Postpone(user_id, content)
    \/ \E user_id \in Users, content \in CommandSpecMessages \cap UpdateLocations :
          Open(MaxCommandTurns) /\ UpdateLocation(user_id, content)
    \/ \E user_id \in Users, content \in CommandSpecMessages \cap UpdateAttendeesCmds :
          Open(MaxCommandTurns) /\ UpdateAttendees(user_id, content)
    \/ \E user_id \in Users :
          /\ Open(MaxCommandTurns)
          /\ Len(tasks) < MaxInFlight
          /\ ChatStart(user_id, MsgHi)
    \/ \E t \in 1..MaxInFlight : Resume(t)

SpecCommands == InitChat /\ [][NextCommands]_vars

(***************************************************************************)
(* SpecAttendees: attendee commands one after the other.  A turn has no    *)
(* suspension point between its list, get and update calls (lines 626-653  *)
(* and 513-534 call execute() without yielding), so the interleavings of   *)
(* attendee turns are the orders in which whole turns run.                 *)
(***************************************************************************)
\* number of messages received in a run of SpecAttendees
MaxAttendeeTurns == 3

AttendeeSpecMessages == {MsgAddAtt, MsgAddAttTwo, MsgAddAttGone}

NextAttendees ==
    \E user_id \in Users, content \in AttendeeSpecMessages :
        Open(MaxAttendeeTurns) /\ UpdateAttendees(user_id, content)

SpecAttendees == Init /\ [][NextAttendees]_vars

(***************************************************************************)
(* Location state.                                                         *)
(***************************************************************************)
\* the zone a geolocation answer leads to: "None" when the lookup raised,
\* reported a failure or lacks a key, otherwise what the coordinates map to
C21_ZoneOf(answer) ==
    IF /\ answer.kind = "json"
       /\ {"status", "city", "regionName", "country", "lat", "lon"}
              \subseteq DOMAIN answer.data
       /\ answer.data.status = "success"
    THEN timezone_at(answer.data.lat, answer.data.lon)
    ELSE "None"

C23_Commands ==
    {"LocationQuery", "CreateEvent", "Postpone", "UpdateLocation", "UpdateAttendees"}

\* C23: a step of a turn classified as LocationQuery, CreateEvent, Postpone,
\* UpdateLocation or UpdateAttendees, whether the turn succeeds or fails,
\* leaves the turns stored for every user unchanged; and the history in the
\* prompt of a free-form turn holds free-form messages and replies of the
\* LLM only.
C23_CommandsKeepMemory ==
    [][/\ ReceivedTask.intent \in C23_Commands =>
             \A u \in Users : HistoryAfter(u) = History(u)
       /\ (Len(tasks') > Len(tasks) /\ ReceivedTask.intent = "GeneralChat") =>
             \A i \in 1..Len(ReceivedTask.prompt.history) :
                 LET turn == ReceivedTask.prompt.history[i]
                 IN  IF turn.role = "user"
                     THEN IntentOf[turn.content] = "GeneralChat"
                     ELSE turn.content \in ChatReplies
      ]_vars

\* a command of a user whose memory holds an exchange changed the calendar
C23_Witness ==
    /\ finished.intent \in C23_Commands
    /\ finished.outcome = "replied"
    /\ calendar # CalendarSmall
    /\ History(finished.user) # <<>>

(***************************************************************************)
(* Attendee updates one after the other.                                   *)
(***************************************************************************)
\* the set of attendee emails of the event with this id
C24_Emails(cal, event_id) ==
    LET emails == C11_EmailsOf(cal, event_id)
    IN  {emails[i] : i \in 1..Len(emails)}

C24_Ids(cal) == {cal[i].id : i \in 1..Len(cal)}

\* C24: an attendee turn removes no attendee from any event, and a turn
\* whose update went through leaves on its event every email it was given;
\* so after attendee turns in any order the event holds what it held before
\* and what each turn added.
C24_NoAttendeeLost ==
    [][finished'.intent = "UpdateAttendees" =>
          /\ C24_Ids(calendar') = C24_Ids(calendar)
          /\ \A id \in C24_Ids(calendar) :
                C24_Emails(calendar, id) \subseteq C24_Emails(calendar', id)
          /\ C11_Merged =>
                {finished'.attendees[i] : i \in 1..Len(finished'.attendees)}
                    \subseteq C24_Emails(calendar', finished'.target)
      ]_vars

\* the second update of an event went through: the event holds the email of
\* the first turn and the email the second turn added
C24_Witness ==
    /\ received >= 2
    /\ finished.intent = "UpdateAttendees"
    /\ finished.reply.kind = "attendees_updated"
    /\ finished.reply.detail = "updated"
    /\ finished.attendees = <<<<"a","@","x">>, <<"b","@","x">>, <<"a","@","x">>>>
    /\ C11_EmailsOf(calendar, finished.target) = <<<<"a","@","x">>, <<"b","@","x">>>>

(***************************************************************************)
(* Postponement.                                                           *)
(***************************************************************************)
\* a Postpone turn that resolved its event ended in this step
C25_Postponed ==
    /\ TurnEnded
    /\ finished'.intent = "Postpone"
    /\ finished'.target # 0

\* C25: a postponement that went through moves the start and the end of its
\* event by the hours of the command, so that the duration is kept; for an
\* event whose start or end has no dateTime the turn replies with the
\* failure text, issues no get and no update, and the calendar is unchanged.
C25_PostponeShifts ==
    [][C25_Postponed =>
          LET old == C12_EventOf(calendar, finished'.target)
              new == C12_EventOf(calendar', finished'.target)
              timed == Has(old.start, "dateTime") /\ Has(old.end, "dateTime")
          IN  /\ (timed /\ finished'.reply.detail = "updated") =>
                    /\ finished'.reply.kind = "postponed"
                    /\ new.start.dateTime = old.start.dateTime + finished'.hours
                    /\ new.end.dateTime = old.end.dateTime + finished'.hours
                    /\ new.end.dateTime - new.start.dateTime =
                           old.end.dateTime - old.start.dateTime
              /\ ~timed =>
                    /\ finished'.outcome = "replied"
                    /\ finished'.reply.kind = "postpone_failed"
                    /\ \A c \in 1..Len(finished'.calls) :
                          finished'.calls[c].op \notin {"get", "update"}
                    /\ calendar' = calendar
      ]_vars

\* the event that lasts two hours was moved by two hours
C25_Witness ==
    /\ finished.intent = "Postpone"
    /\ finished.hours = 2
    /\ finished.reply.kind = "postponed"
    /\ finished.reply.detail = "updated"
    /\ finished.target = 3
    /\ C12_EventOf(calendar, 3).start.dateTime = 32
    /\ C12_EventOf(calendar, 3).end.dateTime = 34

\* a postponement named the all-day event
C25_AllDayWitness ==
    /\ finished.intent = "Postpone"
    /\ finished.target = 4
    /\ finished.reply.kind = "postpone_failed"
    /\ calendar = CalendarSmall

=============================================================================
